---- MODULE Spec2Model ----
(***************************************************************************)
(* A model of the VWS client of vws-python (src/vws/vws.py): the request   *)
(* assembly of _target_api_request, the five operations of class VWS, the  *)
(* polling loop of wait_for_target_processed under its                     *)
(* @timeout_decorator.timeout(seconds=60 * 5), and, from the tests and the *)
(* specification, the query operation of the cloud recognition client and  *)
(* the remote service both clients talk to.                                *)
(*                                                                         *)
(* Time is counted in ticks of one polling interval (sleep(0.2)); the five *)
(* minute budget of the decorator is scaled down to TimeoutTicks ticks.    *)
(***************************************************************************)
EXTENDS Integers, Sequences, FiniteSets, TLC

VARIABLES
    client,     \* the VWS instance: _server_access_key, _server_secret_key, _base_vws_url
    targets,    \* the remote database: targets[i] is the target whose id is i
    call,       \* call[t]: the client call thread t is executing or has last finished
    alarm       \* the process-wide ITIMER_REAL of the timeout decorator: ticks left, -1 when not set

vars == <<client, targets, call, alarm>>

----------------------------------------------------------------------------
\* Bounds of the model.

\* The database holds at most this many targets.
MaxTargets == 3

\* The decorator's budget (seconds=60 * 5) in ticks, scaled down.
TimeoutTicks == 3

\* The length of one sleep(0.2) in ticks.
SleepTicks == 1

\* The size of the database when callers run in several threads.
ThreadedMaxTargets == 2

\* The largest max_num_results the remote service accepts, and the smallest.
MaxResultsUpper == 50

MaxResultsLower == 1

\* The threads of the calling process; signal handlers can be set in, and run in, the main thread only.
Threads == {"main", "worker"}

MainThread == "main"

\* Image contents handed to add_target and query; CorruptImage is no image at all.
Images == {"img_a", "img_b"}

CorruptImage == "corrupt"

\* The instants the clock can show when a request is assembled.
Instants == {0, 1}

\* The values of max_num_results a caller passes (1 is the default).
MaxNumResultsInputs == {0, 1, 2, 50, 51}

\* The secret key the remote service holds for the database.
ServerSecretKey == "secret"

\* The secret keys a client may be constructed with.
SecretKeyInputs == {"secret", "wrong"}

----------------------------------------------------------------------------
\* Conversions and the signer.

\* str.encode(): the UTF-8 bytes of a string.
Encode(s) == <<"utf8", s>>

\* base64.b64encode(image_data).decode('ascii')
B64Encode(image_data) == <<"b64", image_data>>

\* The service's decoding of the image field.
B64Decode(encoded) == encoded[2]

\* bytes(json.dumps(data), encoding='utf-8')
JsonDumps(data) == <<"json", data>>

\* b'', the body of every GET.
EmptyContent == <<>>

\* rfc_1123_date(): the instant the clock shows, in the wire format.
Rfc1123Date(instant) == <<"GMT", instant>>

\* The content hash of the canonical request: empty for an empty body.
ContentHash(content) == IF content = EmptyContent THEN <<>> ELSE <<"md5", content>>

\* authorization_header(): "VWS <access_key>:<signature>", the signature an
\* HMAC, keyed by the secret, of method, content hash, content type, date, path.
AuthorizationHeader(access_key, secret_key, method, content, content_type, date, request_path) ==
    [scheme     |-> "VWS",
     access_key |-> access_key,
     signature  |-> <<"hmac", secret_key,
                      <<method, ContentHash(content), content_type, date, request_path>> >>]

\* urljoin(base=base_vws_url, url=request_path)
Urljoin(base, request_path) == [base |-> base, path |-> request_path]

NoReq == [method |-> "none"]

\* A request builder that reads the clock again for the Date header, after signing.
TargetApiRequestRereadsDate(server_access_key, server_secret_key, method, content, request_path, base_vws_url, instant) ==
    LET content_type == "application/json"
    IN  [method  |-> method,
         url     |-> Urljoin(base_vws_url, request_path),
         headers |-> [Authorization |-> AuthorizationHeader(server_access_key, server_secret_key,
                                            method, content, content_type, Rfc1123Date(instant), request_path),
                      Date          |-> Rfc1123Date(instant + 1),
                      ContentType   |-> content_type],
         data    |-> content]

\* _target_api_request, up to the moment requests.request has sent the request:
\* the date is read once, signed, and sent as the Date header.
TargetApiRequest(server_access_key, server_secret_key, method, content, request_path, base_vws_url, instant) ==
    LET date == Rfc1123Date(instant)
        content_type == "application/json"
        signature_string == AuthorizationHeader(server_access_key, server_secret_key,
                                method, content, content_type, date, request_path)
    IN  [method  |-> method,
         url     |-> Urljoin(base_vws_url, request_path),
         headers |-> [Authorization |-> signature_string,
                      Date          |-> date,
                      ContentType   |-> content_type],
         data    |-> content]

----------------------------------------------------------------------------
\* The remote service.

Processed == {"success", "failed"}

Statuses == {"processing"} \cup Processed

\* The service recomputes the signature from the request it received.
SignatureValid(req) ==
    req.headers.Authorization =
        AuthorizationHeader(req.headers.Authorization.access_key, Encode(ServerSecretKey),
                            req.method, req.data, req.headers.ContentType,
                            req.headers.Date, req.url.path)

ErrorResponse(status_code, result_code, message) ==
    [status_code |-> status_code,
     body |-> [result_code |-> result_code, message |-> message]]

\* The message of the query endpoint for a max_num_results it does not accept.
OutOfRangeMessage(n) ==
    <<"Integer out of range", n, "in form data part 'max_result'. Accepted range is from",
      MaxResultsLower, "to", MaxResultsUpper, "(inclusive).">>

\* The response of the target API to a request, given the database.
TargetApiResponse(req, db) ==
    LET path == req.url.path IN
    CASE ~SignatureValid(req) ->
            ErrorResponse(401, "AuthenticationFailure", <<"AuthenticationFailure">>)
      [] req.method = "POST" /\ path = <<"targets">> /\ req.data # EmptyContent ->
            IF req.data[2].image = B64Encode(CorruptImage)
            THEN ErrorResponse(422, "BadImage", <<"BadImage">>)
            ELSE [status_code |-> 201,
                  body |-> [result_code |-> "TargetCreated", target_id |-> Len(db) + 1]]
      [] req.method = "GET" /\ path = <<"targets">> ->
            [status_code |-> 200,
             body |-> [result_code |-> "Success", results |-> [i \in 1..Len(db) |-> i]]]
      [] req.method = "GET" /\ Len(path) = 2 /\ path[1] \in {"targets", "summary"} ->
            IF path[2] \in 1..Len(db)
            THEN [status_code |-> 200,
                  body |-> [result_code |-> "Success", status |-> db[path[2]].status]]
            ELSE ErrorResponse(404, "UnknownTarget", <<"UnknownTarget">>)
      [] OTHER -> ErrorResponse(400, "Fail", <<"Fail">>)

\* The database after the target API has handled a request: only a valid
\* POST /targets changes it, adding a target that starts out processing.
TargetApiEffect(req, db) ==
    IF /\ SignatureValid(req)
       /\ req.method = "POST"
       /\ req.url.path = <<"targets">>
       /\ req.data # EmptyContent
       /\ req.data[2].image # B64Encode(CorruptImage)
    THEN Append(db, [status |-> "processing", image |-> B64Decode(req.data[2].image)])
    ELSE db

----------------------------------------------------------------------------
\* Calls.

Returned(value) == [kind |-> "returned", value |-> value]

Raised(exc, message) == [kind |-> "raised", exc |-> exc, message |-> message]

NoOutcome == [kind |-> "none"]

Idle ==
    [op |-> "none", pc |-> "idle", tid |-> 0, image |-> "none", max |-> 0,
     req |-> NoReq, sent |-> 0, resp_err |-> FALSE, out |-> NoOutcome,
     polls |-> 0, sleeps |-> 0, hist |-> <<>>, slept |-> 0, waited |-> 0, cut |-> "none"]

\* A thread can start a call when it is executing none.
Free(t) == call[t].pc \in {"idle", "done"}

\* The request of a call of this client, as _target_api_request sends it.
ClientRequest(method, content, request_path, instant) ==
    TargetApiRequest(client.server_access_key, client.server_secret_key,
                     method, content, request_path, client.base_vws_url, instant)

\* VWS.__init__
Init ==
    /\ client \in {[server_access_key |-> Encode("access"),
                    server_secret_key |-> Encode(s),
                    base_vws_url      |-> "https://vws.vuforia.com"] : s \in SecretKeyInputs}
    /\ targets = <<>>
    /\ call = [t \in Threads |-> Idle]
    /\ alarm = -1

\* The number of POST /targets requests in flight.
AddsInFlight == Cardinality({t \in Threads : call[t].pc = "in_flight" /\ call[t].op = "add_target"})

\* VWS.add_target, up to the request sent.
AddTarget(t, name, width, image, active_flag, instant, cap) ==
    /\ Free(t)
    /\ Len(targets) + AddsInFlight < cap
    /\ LET data == [name |-> name, width |-> width,
                    image |-> B64Encode(image), active_flag |-> active_flag]
           content == JsonDumps(data)
       IN  call' = [call EXCEPT ![t] =
                [Idle EXCEPT !.op = "add_target", !.pc = "in_flight", !.image = image,
                             !.req = ClientRequest("POST", content, <<"targets">>, instant),
                             !.sent = 1]]
    /\ UNCHANGED <<client, targets, alarm>>

\* A get_target request with another method: what a slip in the method would send.
GetTargetRequestDelete(target_id, instant) ==
    ClientRequest("DELETE", EmptyContent, <<"targets", target_id>>, instant)

\* The request of VWS.get_target: a GET of /targets/{target_id} with an empty body.
GetTargetRequest(target_id, instant) ==
    ClientRequest("GET", EmptyContent, <<"targets", target_id>>, instant)

\* VWS.get_target, up to the request sent.
GetTarget(t, target_id, instant) ==
    /\ Free(t)
    /\ call' = [call EXCEPT ![t] =
            [Idle EXCEPT !.op = "get_target", !.pc = "in_flight", !.tid = target_id,
                         !.req = GetTargetRequest(target_id, instant),
                         !.sent = 1]]
    /\ UNCHANGED <<client, targets, alarm>>

\* VWS.list_targets, up to the request sent.
ListTargets(t, instant) ==
    /\ Free(t)
    /\ call' = [call EXCEPT ![t] =
            [Idle EXCEPT !.op = "list_targets", !.pc = "in_flight",
                         !.req = ClientRequest("GET", EmptyContent, <<"targets">>, instant),
                         !.sent = 1]]
    /\ UNCHANGED <<client, targets, alarm>>

\* VWS.get_target_summary_report, up to the request sent.
GetTargetSummaryReport(t, target_id, instant) ==
    /\ Free(t)
    /\ call' = [call EXCEPT ![t] =
            [Idle EXCEPT !.op = "get_target_summary_report", !.pc = "in_flight", !.tid = target_id,
                         !.req = ClientRequest("GET", EmptyContent, <<"summary", target_id>>, instant),
                         !.sent = 1]]
    /\ UNCHANGED <<client, targets, alarm>>

\* What a finished call leaves behind.
Finish(c, outcome, resp) ==
    [c EXCEPT !.pc = "done", !.req = NoReq, !.out = outcome, !.tid = 0, !.image = "none",
              !.resp_err = (resp.status_code >= 400)]

\* The response to add_target's request arrives: str(response.json()['target_id']).
AddTargetReturn(t) ==
    /\ call[t].pc = "in_flight" /\ call[t].op = "add_target"
    /\ LET resp == TargetApiResponse(call[t].req, targets)
           outcome == IF "target_id" \in DOMAIN resp.body
                      THEN Returned(resp.body.target_id)
                      ELSE Raised("KeyError", <<"target_id">>)
       IN  /\ call' = [call EXCEPT ![t] = Finish(call[t], outcome, resp)]
           /\ targets' = TargetApiEffect(call[t].req, targets)
    /\ UNCHANGED <<client, alarm>>

\* The response to get_target's request arrives: dict(response.json()).
GetTargetReturn(t) ==
    /\ call[t].pc = "in_flight" /\ call[t].op = "get_target"
    /\ LET resp == TargetApiResponse(call[t].req, targets)
       IN  /\ call' = [call EXCEPT ![t] = Finish(call[t], Returned(resp.body), resp)]
           /\ targets' = TargetApiEffect(call[t].req, targets)
    /\ UNCHANGED <<client, alarm>>

\* The response to list_targets' request arrives: list(response.json()['results']).
ListTargetsReturn(t) ==
    /\ call[t].pc = "in_flight" /\ call[t].op = "list_targets"
    /\ LET resp == TargetApiResponse(call[t].req, targets)
           outcome == IF "results" \in DOMAIN resp.body
                      THEN Returned(resp.body.results)
                      ELSE Raised("KeyError", <<"results">>)
       IN  /\ call' = [call EXCEPT ![t] = Finish(call[t], outcome, resp)]
           /\ targets' = TargetApiEffect(call[t].req, targets)
    /\ UNCHANGED <<client, alarm>>

\* The response to get_target_summary_report's request arrives: dict(response.json()).
GetTargetSummaryReportReturn(t) ==
    /\ call[t].pc = "in_flight" /\ call[t].op = "get_target_summary_report"
    /\ LET resp == TargetApiResponse(call[t].req, targets)
       IN  /\ call' = [call EXCEPT ![t] = Finish(call[t], Returned(resp.body), resp)]
           /\ targets' = TargetApiEffect(call[t].req, targets)
    /\ UNCHANGED <<client, alarm>>

\* A status test that takes only 'success' for the end of processing.
PastProcessingOnSuccessOnly(status) == status = "success"

\* The status test of the polling loop: target_details['status'] != 'processing'.
PastProcessing(status) == status # "processing"

\* A timer set one tick short of the budget.
SetItimerShort == TimeoutTicks - 1

\* The timer the decorator sets: signal.setitimer(ITIMER_REAL, seconds).
SetItimer == TimeoutTicks

\* A loop that does not sleep between polls.
SleepLengthNone == SleepTicks - SleepTicks

\* The length of one sleep(0.2).
SleepLength == SleepTicks

\* VWS.wait_for_target_processed, entered through the timeout decorator: the
\* decorator installs its SIGALRM handler and sets the timer, which Python
\* allows in the main thread only (elsewhere signal.signal raises ValueError
\* and the function body never runs); then the loop sends its first poll.
WaitForTargetProcessed(t, target_id, instant) ==
    /\ Free(t)
    /\ IF t = MainThread
       THEN /\ alarm' = SetItimer
            /\ call' = [call EXCEPT ![t] =
                    [Idle EXCEPT !.op = "wait_for_target_processed", !.pc = "in_flight",
                                 !.tid = target_id,
                                 !.req = GetTargetRequest(target_id, instant),
                                 !.sent = 1, !.polls = 1]]
       ELSE /\ alarm' = alarm
            /\ call' = [call EXCEPT ![t] =
                    [Idle EXCEPT !.op = "wait_for_target_processed", !.pc = "done",
                                 !.out = Raised("ValueError", <<"signal only works in main thread">>)]]
    /\ UNCHANGED <<client, targets>>

\* A poll's response arrives: the loop returns on a status other than
\* 'processing' (the decorator's finally clause clears the timer), and goes
\* to sleep otherwise. A body without 'status' raises KeyError.
WaitPollReturn(t) ==
    /\ call[t].pc = "in_flight" /\ call[t].op = "wait_for_target_processed"
    /\ LET resp == TargetApiResponse(call[t].req, targets)
           c == call[t]
       IN  /\ targets' = TargetApiEffect(c.req, targets)
           /\ IF "status" \notin DOMAIN resp.body
              THEN /\ call' = [call EXCEPT ![t] =
                          Finish([c EXCEPT !.hist = Append(@, "error")],
                                 Raised("KeyError", <<"status">>), resp)]
                   /\ alarm' = -1
              ELSE IF PastProcessing(resp.body.status)
              THEN /\ call' = [call EXCEPT ![t] =
                          Finish([c EXCEPT !.hist = Append(@, resp.body.status)],
                                 Returned(<<"None">>), resp)]
                   /\ alarm' = -1
              ELSE /\ call' = [call EXCEPT ![t] =
                          [c EXCEPT !.pc = "sleeping", !.req = NoReq,
                                    !.hist = Append(@, resp.body.status),
                                    !.sleeps = @ + 1, !.slept = 0]]
                   /\ alarm' = alarm
    /\ UNCHANGED client

\* sleep(0.2) is over: the loop sends its next poll.
WaitWake(t, instant) ==
    /\ call[t].pc = "sleeping"
    /\ call[t].slept >= SleepLength
    /\ call' = [call EXCEPT ![t] =
            [@ EXCEPT !.pc = "in_flight",
                      !.req = GetTargetRequest(call[t].tid, instant),
                      !.sent = @ + 1, !.polls = @ + 1]]
    /\ UNCHANGED <<client, targets, alarm>>

\* The timer expires: SIGALRM's handler runs in the main thread, wherever it
\* is in the decorated call, and raises the timeout error there.
Alarm ==
    /\ alarm = 0
    /\ call[MainThread].pc \in {"in_flight", "sleeping"}
    /\ call' = [call EXCEPT ![MainThread] =
            [@ EXCEPT !.pc = "done", !.req = NoReq, !.tid = 0, !.cut = call[MainThread].pc,
                      !.out = Raised("TimeoutError", <<"Timed Out">>)]]
    /\ alarm' = -1
    /\ UNCHANGED <<client, targets>>

\* One tick of time passes for the running timer and the sleeping loop.
Tick ==
    /\ alarm > 0
    /\ alarm' = alarm - 1
    /\ call' = [call EXCEPT ![MainThread] =
            [@ EXCEPT !.waited = @ + 1,
                      !.slept = IF call[MainThread].pc = "sleeping" /\ @ < SleepLength
                                THEN @ + 1 ELSE @]]
    /\ UNCHANGED <<client, targets>>

----------------------------------------------------------------------------
\* The cloud recognition client and its endpoint.

\* The successfully processed targets an image matches, by id.
Matching(image, db) == {i \in 1..Len(db) : db[i].image = image /\ db[i].status = "success"}

\* Whether a target the image would match is still being processed.
MatchInProcessing(image, db) == \E i \in 1..Len(db) : db[i].image = image /\ db[i].status = "processing"

\* The first n elements of a set of ids, in ascending order.
RECURSIVE FirstN(_, _)
FirstN(ids, n) ==
    IF n <= 0 \/ ids = {} THEN <<>>
    ELSE LET m == CHOOSE i \in ids : \A j \in ids : i <= j
         IN  <<[target_id |-> m]>> \o FirstN(ids \ {m}, n - 1)

\* The query endpoint: it validates max_num_results, may report a match
\* that is still being processed, and returns at most max_num_results matches.
QueryResponse(req, db, report_processing) ==
    LET form == req.data[2] IN
    IF form.max_num_results < MaxResultsLower \/ form.max_num_results > MaxResultsUpper
    THEN ErrorResponse(400, "Fail", OutOfRangeMessage(form.max_num_results))
    ELSE IF report_processing /\ MatchInProcessing(form.image, db)
    THEN ErrorResponse(500, "MatchProcessing", <<"MatchProcessing">>)
    ELSE [status_code |-> 200,
          body |-> [result_code |-> "Success",
                    results |-> FirstN(Matching(form.image, db), form.max_num_results)]]

\* A query that brings max_num_results into the accepted range before sending.
QueryRequestClamped(image, max_num_results, include_target_data) ==
    [method  |-> "POST",
     url     |-> Urljoin("https://cloudreco.vuforia.com", <<"v1", "query">>),
     headers |-> [ContentType |-> "multipart/form-data"],
     data    |-> <<"multipart",
                   [image |-> image,
                    max_num_results |-> IF max_num_results > MaxResultsUpper THEN MaxResultsUpper
                                        ELSE IF max_num_results < MaxResultsLower THEN MaxResultsLower
                                        ELSE max_num_results,
                    include_target_data |-> include_target_data]>>]

\* A query that always asks for the default single result.
QueryRequestDefaultMax(image, max_num_results, include_target_data) ==
    [method  |-> "POST",
     url     |-> Urljoin("https://cloudreco.vuforia.com", <<"v1", "query">>),
     headers |-> [ContentType |-> "multipart/form-data"],
     data    |-> <<"multipart", [image |-> image, max_num_results |-> 1,
                                 include_target_data |-> include_target_data]>>]

\* CloudRecoService.query, up to the request sent: the multipart body is
\* built from the arguments as given, with no check of max_num_results.
QueryRequest(image, max_num_results, include_target_data) ==
    [method  |-> "POST",
     url     |-> Urljoin("https://cloudreco.vuforia.com", <<"v1", "query">>),
     headers |-> [ContentType |-> "multipart/form-data"],
     data    |-> <<"multipart", [image |-> image, max_num_results |-> max_num_results,
                                 include_target_data |-> include_target_data]>>]

\* The error mapper on a query response.
QueryOutcome(resp) ==
    CASE resp.status_code = 400 -> Raised("MaxNumResultsOutOfRange", resp.body.message)
      [] resp.status_code = 401 -> Raised("AuthenticationFailure", resp.body.message)
      [] resp.body.result_code = "MatchProcessing" -> Raised("MatchProcessing", resp.body.message)
      [] OTHER -> Returned(resp.body.results)

Query(t, image, max_num_results, include_target_data) ==
    /\ Free(t)
    /\ call' = [call EXCEPT ![t] =
            [Idle EXCEPT !.op = "query", !.pc = "in_flight", !.image = image,
                         !.max = max_num_results,
                         !.req = QueryRequest(image, max_num_results, include_target_data),
                         !.sent = 1]]
    /\ UNCHANGED <<client, targets, alarm>>

QueryReturn(t, report_processing) ==
    /\ call[t].pc = "in_flight" /\ call[t].op = "query"
    /\ LET resp == QueryResponse(call[t].req, targets, report_processing)
       IN  call' = [call EXCEPT ![t] =
                [@ EXCEPT !.pc = "done", !.req = NoReq, !.out = QueryOutcome(resp),
                          !.resp_err = (resp.status_code >= 400)]]
    /\ UNCHANGED <<client, targets, alarm>>

\* The remote service finishes processing a target.
ServerProcess(i, status) ==
    /\ i \in 1..Len(targets)
    /\ targets[i].status = "processing"
    /\ targets' = [targets EXCEPT ![i].status = status]
    /\ UNCHANGED <<client, call, alarm>>

\* The steps of the callers in threads T against a database of at most cap
\* targets, of the remote service and of time.
NextFor(T, cap) ==
    \/ \E t \in T, image \in Images \cup {CorruptImage}, instant \in Instants :
            AddTarget(t, "x", 1, image, TRUE, instant, cap)
    \/ \E t \in T, id \in 1..cap, instant \in Instants : GetTarget(t, id, instant)
    \/ \E t \in T, instant \in Instants : ListTargets(t, instant)
    \/ \E t \in T, id \in 1..cap, instant \in Instants : GetTargetSummaryReport(t, id, instant)
    \/ \E t \in T : AddTargetReturn(t)
    \/ \E t \in T : GetTargetReturn(t)
    \/ \E t \in T : ListTargetsReturn(t)
    \/ \E t \in T : GetTargetSummaryReportReturn(t)
    \/ \E t \in T, id \in 1..cap, instant \in Instants : WaitForTargetProcessed(t, id, instant)
    \/ \E t \in T : WaitPollReturn(t)
    \/ \E t \in T, instant \in Instants : WaitWake(t, instant)
    \/ Alarm
    \/ Tick
    \/ \E t \in T, image \in Images, n \in MaxNumResultsInputs : Query(t, image, n, "top")
    \/ \E t \in T, report_processing \in BOOLEAN : QueryReturn(t, report_processing)
    \/ \E i \in 1..cap, status \in Processed : ServerProcess(i, status)

\* One caller, in the main thread.
Next == NextFor({MainThread}, MaxTargets)

Spec == Init /\ [][Next]_vars

\* Callers in the main thread and in a worker thread, on a smaller database.
ThreadedNext == NextFor(Threads, ThreadedMaxTargets)

ThreadedSpec == Init /\ [][ThreadedNext]_vars

----------------------------------------------------------------------------
\* Properties.

WaitOp == "wait_for_target_processed"

\* The operations of the target management client that send one request.
SingleRequestOps == {"add_target", "get_target", "list_targets", "get_target_summary_report"}

\* The operations that only observe the database.
ObservingOps == {"get_target", "list_targets", "get_target_summary_report", WaitOp}

\* The errors of the taxonomy.
TypedErrors ==
    {"AuthenticationFailure", "MaxNumResultsOutOfRange", "MatchProcessing",
     "TimeoutError", "UnknownVWSError"}

TimedOut(c) == c.op = WaitOp /\ c.pc = "done" /\ c.out.kind = "raised" /\ c.out.exc = "TimeoutError"

Min(a, b) == IF a <= b THEN a ELSE b

\* C1: a wait returns normally right after the first poll whose status is not
\* 'processing', whatever that status is: every earlier poll reported
\* 'processing', no poll and no sleep follows it.
C1_ReturnsOnFirstPastProcessing ==
    \A t \in Threads :
        LET c == call[t] IN
        (c.op = WaitOp /\ \E i \in 1..Len(c.hist) : c.hist[i] \in Processed) =>
            /\ c.pc = "done"
            /\ c.out.kind = "returned"
            /\ c.hist[Len(c.hist)] \in Processed
            /\ \A i \in 1..(Len(c.hist) - 1) : c.hist[i] = "processing"
            /\ c.polls = Len(c.hist)
            /\ c.sleeps = c.polls - 1

\* A wait has returned after a poll that reported 'processing' and one that reported 'failed'.
C1_Witness ==
    \E t \in Threads :
        /\ call[t].op = WaitOp /\ call[t].pc = "done" /\ call[t].out.kind = "returned"
        /\ call[t].hist = <<"processing", "failed">>

\* C2: while every poll of a wait reports 'processing', the call neither
\* returns nor raises before the budget has elapsed, and when it has elapsed
\* the call ends with the timeout error, however many polls it made.
C2_TimeoutAtDeadlineNotEarlier ==
    \A t \in Threads :
        LET c == call[t] IN
        (c.op = WaitOp /\ c.polls >= 1 /\ \A i \in 1..Len(c.hist) : c.hist[i] = "processing") =>
            /\ c.waited <= TimeoutTicks
            /\ c.pc = "done" => (TimedOut(c) /\ c.waited = TimeoutTicks)
            /\ (c.pc # "done" /\ c.waited = TimeoutTicks) => (alarm = 0 /\ ENABLED Alarm)
            /\ (c.pc # "done" /\ c.waited < TimeoutTicks) => ~ENABLED Alarm

\* A wait whose polls, more than one, all reported 'processing' has timed out.
C2_Witness ==
    \E t \in Threads :
        /\ TimedOut(call[t])
        /\ call[t].polls >= 2
        /\ \A i \in 1..Len(call[t].hist) : call[t].hist[i] = "processing"

\* C3: for add_target, get_target, list_targets, get_target_summary_report and
\* wait_for_target_processed, a call the service answered with an error
\* response ends by raising a typed error, never by returning a result built
\* from the error body.
C3_ServerFailuresRaiseTypedErrors ==
    \A t \in Threads :
        LET c == call[t] IN
        (c.op \in SingleRequestOps \cup {WaitOp} /\ c.pc = "done" /\ c.resp_err) =>
            (c.out.kind = "raised" /\ c.out.exc \in TypedErrors)

\* C4 as claimed: the timeout error is never raised while a get_target
\* request is in flight, so every poll that was started has completed.
C4_TimeoutOnlyBetweenPolls ==
    \A t \in Threads :
        TimedOut(call[t]) => (call[t].cut # "in_flight" /\ Len(call[t].hist) = call[t].polls)

\* C4 as amended: the timeout error is raised when the budget has elapsed and
\* not before, wherever the call then is: in the sleep between two polls, with
\* every poll completed, or with a get_target request in flight, whose
\* response is then never received.
C4_TimeoutWhereverTheCallIs ==
    \A t \in Threads :
        LET c == call[t] IN
        TimedOut(c) =>
            /\ c.waited = TimeoutTicks
            /\ \/ c.cut = "sleeping" /\ Len(c.hist) = c.polls /\ c.sleeps = c.polls
               \/ c.cut = "in_flight" /\ Len(c.hist) = c.polls - 1 /\ c.sleeps = c.polls - 1

\* A wait has timed out with a poll in flight.
C4_Witness ==
    \E t \in Threads :
        TimedOut(call[t]) /\ call[t].cut = "in_flight" /\ call[t].polls >= 2

\* C5: with calls running in several threads on one client, each wait that
\* runs beside another has a deadline of its own and polls as it would alone:
\* it does not end without having polled, and while it runs the timer holds
\* what is left of its own budget.
C5_ConcurrentWaitsKeepTheirDeadlines ==
    \A t \in Threads, u \in Threads :
        LET c == call[t] IN
        (t # u /\ c.op = WaitOp /\ call[u].op = WaitOp) =>
            /\ c.polls >= 1
            /\ c.pc # "done" => alarm = SetItimer - c.waited

\* C6: every request of wait_for_target_processed, get_target, list_targets
\* and get_target_summary_report is a GET with an empty body, add_target's is
\* the only POST of the target management client, and the database changes
\* only when the service handles an add_target's POST or finishes processing
\* a target on its own.
C6_ObservingRequests ==
    \A t \in Threads :
        LET c == call[t] IN
        c.pc = "in_flight" =>
            /\ c.op \in ObservingOps => (c.req.method = "GET" /\ c.req.data = EmptyContent)
            /\ c.op = "add_target" => c.req.method = "POST"

C6_DatabaseFrame ==
    targets' # targets =>
        \/ \E t \in Threads :
                /\ call[t].pc = "in_flight" /\ call[t].op = "add_target"
                /\ call[t].req.method = "POST"
                /\ call'[t].pc = "done"
                /\ Len(targets') = Len(targets) + 1
                /\ \A i \in 1..Len(targets) : targets'[i] = targets[i]
        \/ /\ Len(targets') = Len(targets)
           /\ \A i \in 1..Len(targets) :
                targets'[i] # targets[i] =>
                    /\ targets[i].status = "processing"
                    /\ targets'[i].image = targets[i].image
           /\ UNCHANGED call

C6_ClientOnlyObserves == []C6_ObservingRequests /\ [][C6_DatabaseFrame]_vars

\* A wait has its third poll in flight, a GET, on a database that holds a target.
C6_Witness ==
    \E t \in Threads :
        /\ call[t].op = WaitOp /\ call[t].pc = "in_flight" /\ call[t].polls = 3
        /\ call[t].req.method = "GET"
        /\ Len(targets) >= 1

\* C7: query sends max_num_results as given, in the accepted range or not; a
\* value outside 1 to 50 ends with MaxNumResultsOutOfRange carrying the
\* service's message, and a value inside it never does.
C7_MaxNumResultsNotValidatedByClient ==
    \A t \in Threads :
        LET c == call[t] IN
        c.op = "query" =>
            /\ c.sent = 1
            /\ c.pc = "in_flight" => c.req.data[2].max_num_results = c.max
            /\ (c.pc = "done" /\ (c.max < MaxResultsLower \/ c.max > MaxResultsUpper)) =>
                    /\ c.out.kind = "raised"
                    /\ c.out.exc = "MaxNumResultsOutOfRange"
                    /\ c.out.message = OutOfRangeMessage(c.max)
            /\ (c.pc = "done" /\ c.max >= MaxResultsLower /\ c.max <= MaxResultsUpper) =>
                    ~(c.out.kind = "raised" /\ c.out.exc = "MaxNumResultsOutOfRange")

\* A query with max_num_results=51 has ended with MaxNumResultsOutOfRange.
C7_Witness ==
    \E t \in Threads :
        /\ call[t].op = "query" /\ call[t].pc = "done" /\ call[t].max = 51
        /\ call[t].out.kind = "raised" /\ call[t].out.exc = "MaxNumResultsOutOfRange"

\* C8: a query with max_num_results in range, answered when every target with
\* the query's image is past processing (a wait on each has returned), returns
\* as many matches as the smaller of max_num_results and the number of
\* successfully processed targets with that image, each a different one of them.
C8_QueryStep ==
    \A t \in Threads :
        LET c == call[t]
            same == {i \in 1..Len(targets) : targets[i].image = c.image}
            found == {i \in same : targets[i].status = "success"}
        IN
        ( /\ c.op = "query" /\ c.pc = "in_flight" /\ call'[t].pc = "done"
          /\ c.max >= MaxResultsLower /\ c.max <= MaxResultsUpper
          /\ \A i \in same : targets[i].status \in Processed ) =>
            LET out == call'[t].out IN
            /\ out.kind = "returned"
            /\ Len(out.value) = Min(c.max, Cardinality(found))
            /\ \A k \in 1..Len(out.value) : out.value[k].target_id \in found
            /\ \A k, l \in 1..Len(out.value) :
                    out.value[k].target_id = out.value[l].target_id => k = l

C8_QueryReturnsUpToMaxNumResults == [][C8_QueryStep]_vars

\* A query with max_num_results=2 has returned two matches while three
\* processed targets have its image.
C8_Witness ==
    \E t \in Threads :
        LET c == call[t] IN
        /\ c.op = "query" /\ c.pc = "done" /\ c.max = 2
        /\ c.out.kind = "returned" /\ Len(c.out.value) = 2
        /\ Cardinality({i \in 1..Len(targets) :
                            targets[i].image = c.image /\ targets[i].status = "success"}) = 3

\* C9: in a wait polls and sleeps alternate: the first poll is sent at once,
\* every later poll is sent out of a sleep that lasted the full interval, and
\* the polls of one call are at most one more than the sleeps that fit in the
\* budget.
C9_Alternation ==
    \A t \in Threads :
        LET c == call[t] IN
        (c.op = WaitOp /\ c.polls >= 1) =>
            /\ c.pc = "in_flight" => c.sleeps = c.polls - 1
            /\ c.pc = "sleeping" => c.sleeps = c.polls
            /\ c.pc = "done" => c.polls - c.sleeps \in {0, 1}
            /\ c.polls <= 1 + (TimeoutTicks \div SleepTicks)

C9_PollStep ==
    \A t \in Threads :
        LET c == call[t]
            d == call'[t]
        IN
        (d.op = WaitOp /\ d.pc = "in_flight" /\ c.pc # "in_flight") =>
            \/ c.pc \in {"idle", "done"} /\ d.polls = 1 /\ d.sleeps = 0 /\ d.waited = 0
            \/ /\ c.pc = "sleeping" /\ c.slept = SleepTicks
               /\ d.polls = c.polls + 1 /\ d.sleeps = c.sleeps

C9_PollsAndSleepsAlternate == []C9_Alternation /\ [][C9_PollStep]_vars

\* A wait has its third poll in flight after two sleeps.
C9_Witness ==
    \E t \in Threads :
        /\ call[t].op = WaitOp /\ call[t].pc = "in_flight"
        /\ call[t].polls = 3 /\ call[t].sleeps = 2 /\ call[t].waited >= 2 * SleepTicks

\* C10: a call of add_target, get_target, list_targets or
\* get_target_summary_report sends one request, whatever the response; its
\* Content-Type is application/json, its URL is this client's base URL joined
\* with the path, and its Authorization is the signature, under this
\* client's credential pair, of the method, body, content type, Date header
\* and path the request carries.
C10_OneRequestSignedAsSent ==
    \A t \in Threads :
        LET c == call[t]
            r == c.req
        IN
        c.op \in SingleRequestOps =>
            /\ c.sent = 1
            /\ c.pc = "in_flight" =>
                /\ r.headers.ContentType = "application/json"
                /\ r.url.base = client.base_vws_url
                /\ r.headers.Authorization =
                        AuthorizationHeader(client.server_access_key, client.server_secret_key,
                                            r.method, r.data, r.headers.ContentType,
                                            r.headers.Date, r.url.path)

\* An add_target that the service answered with an error has ended after its one request.
C10_Witness ==
    \E t \in Threads :
        /\ call[t].op = "add_target" /\ call[t].pc = "done"
        /\ call[t].resp_err /\ call[t].sent = 1

====
